---------------------------- MODULE Spec2Model ----------------------------
(***************************************************************************)
(* Model of the Photo Upload API (server.js): the filename generator, the  *)
(* multer upload middleware, the /upload and /delete/:filename handlers,   *)
(* the error handling middleware and the storage bucket they write to.     *)
(*                                                                         *)
(* Strings are sequences of character codes (ASCII), so that formatting,   *)
(* splitting and pattern matching are computed and not assumed.            *)
(***************************************************************************)
EXTENDS Integers, Sequences, FiniteSets

(***************************************************************************)
(* Characters and strings                                                  *)
(***************************************************************************)
\* '.', the separator of split('.') and of the template literal
DOT == 46
\* '_', the separator of the template literal
UNDERSCORE == 95

\* the literal 'jpg'
JPG == <<106, 112, 103>>

\* one lowercase hexadecimal digit, as Buffer.toString('hex') and digest('hex') write it
HexDigit(n) == IF n < 10 THEN 48 + n ELSE 87 + n

RECURSIVE HexNoPad(_)
\* (mutation of Hex) a byte below 16 is written as one digit
HexNoPad(bytes) ==
  IF bytes = <<>> THEN <<>>
  ELSE (IF bytes[1] < 16 THEN <<HexDigit(bytes[1])>>
        ELSE <<HexDigit(bytes[1] \div 16), HexDigit(bytes[1] % 16)>>)
       \o HexNoPad(Tail(bytes))

\* hex encoding of a byte string: two digits per byte, high digit first
Hex(bytes) ==
  [i \in 1..(2 * Len(bytes)) |->
     IF i % 2 = 1 THEN HexDigit(bytes[(i + 1) \div 2] \div 16)
     ELSE HexDigit(bytes[i \div 2] % 16)]

Pow10(k) == <<1, 10, 100, 1000, 10000, 100000, 1000000, 10000000, 100000000,
              1000000000>>[k + 1]

\* Number.prototype.toString of a non-negative integer (below 2^31)
Decimal(n) ==
  LET d == IF n = 0 THEN 1 ELSE Cardinality({k \in 0..9 : Pow10(k) <= n})
  IN [i \in 1..d |-> 48 + ((n \div Pow10(d - i)) % 10)]

\* String.prototype.substring(0, n)
Substring0(s, n) == SubSeq(s, 1, IF n < Len(s) THEN n ELSE Len(s))

\* the positions of '.' in s
DotPositions(s) == {i \in 1..Len(s) : s[i] = DOT}

Max(S) == CHOOSE m \in S : \A x \in S : x <= m

\* s.split('.').pop(): the part of s after its last '.', all of s when it has none
SplitPop(s) ==
  IF DotPositions(s) = {} THEN s
  ELSE SubSeq(s, Max(DotPositions(s)) + 1, Len(s))

(***************************************************************************)
(* MD5 (RFC 1321), on 32-bit words held as <<high 16 bits, low 16 bits>>   *)
(***************************************************************************)
\* bitwise and of two 4-bit numbers, tabulated
And4 ==
  [a \in 0..15 |-> [b \in 0..15 |->
     (a % 2) * (b % 2)
     + 2 * ((a \div 2) % 2) * ((b \div 2) % 2)
     + 4 * ((a \div 4) % 2) * ((b \div 4) % 2)
     + 8 * (a \div 8) * (b \div 8)]]

\* bitwise and of two 16-bit numbers
And16(a, b) ==
  And4[a % 16][b % 16]
  + 16 * And4[(a \div 16) % 16][(b \div 16) % 16]
  + 256 * And4[(a \div 256) % 16][(b \div 256) % 16]
  + 4096 * And4[a \div 4096][b \div 4096]

WAnd(x, y) == <<And16(x[1], y[1]), And16(x[2], y[2])>>
WOr(x, y)  == <<x[1] + y[1] - And16(x[1], y[1]), x[2] + y[2] - And16(x[2], y[2])>>
WXor(x, y) == <<x[1] + y[1] - 2 * And16(x[1], y[1]),
                x[2] + y[2] - 2 * And16(x[2], y[2])>>
WNot(x)    == <<65535 - x[1], 65535 - x[2]>>
WAdd(x, y) == <<(x[1] + y[1] + ((x[2] + y[2]) \div 65536)) % 65536, (x[2] + y[2]) % 65536>>

Pow2(n) == <<1, 2, 4, 8, 16, 32, 64, 128, 256, 512, 1024, 2048, 4096, 8192, 16384,
             32768, 65536>>[n + 1]

\* rotate left by s, 0 <= s < 16
Rotl16(x, s) ==
  <<((x[1] * Pow2(s)) % 65536) + (x[2] \div Pow2(16 - s)),
    ((x[2] * Pow2(s)) % 65536) + (x[1] \div Pow2(16 - s))>>

\* rotate left by s, 0 < s < 32
WRotl(x, s) == IF s >= 16 THEN Rotl16(<<x[2], x[1]>>, s - 16) ELSE Rotl16(x, s)

MD5Shift ==
  <<7, 12, 17, 22, 7, 12, 17, 22, 7, 12, 17, 22, 7, 12, 17, 22,
    5, 9, 14, 20, 5, 9, 14, 20, 5, 9, 14, 20, 5, 9, 14, 20,
    4, 11, 16, 23, 4, 11, 16, 23, 4, 11, 16, 23, 4, 11, 16, 23,
    6, 10, 15, 21, 6, 10, 15, 21, 6, 10, 15, 21, 6, 10, 15, 21>>

\* floor(2^32 * abs(sin(i))), i = 1..64
MD5Sine ==
  <<<<55146, 42104>>, <<59591, 46934>>, <<9248, 28891>>, <<49597, 52974>>,
    <<62844, 4015>>, <<18311, 50730>>, <<43056, 17939>>, <<64838, 38145>>,
    <<27008, 39128>>, <<35652, 63407>>, <<65535, 23473>>, <<35164, 55230>>,
    <<27536, 4386>>, <<64920, 29075>>, <<42617, 17294>>, <<18868, 2081>>,
    <<63006, 9570>>, <<49216, 45888>>, <<9822, 23121>>, <<59830, 51114>>,
    <<54831, 4189>>, <<580, 5203>>, <<55457, 59009>>, <<59347, 64456>>,
    <<8673, 52710>>, <<49975, 2006>>, <<62677, 3463>>, <<17754, 5357>>,
    <<43491, 59653>>, <<64751, 41976>>, <<26479, 729>>, <<36138, 19594>>,
    <<65530, 14658>>, <<34673, 63105>>, <<28061, 24866>>, <<64997, 14348>>,
    <<42174, 59972>>, <<19422, 53161>>, <<63163, 19296>>, <<48831, 48240>>,
    <<10395, 32454>>, <<60065, 10234>>, <<54511, 12421>>, <<1160, 7429>>,
    <<55764, 53305>>, <<59099, 39397>>, <<8098, 31992>>, <<50348, 22117>>,
    <<62505, 8772>>, <<17194, 65431>>, <<43924, 9127>>, <<64659, 41017>>,
    <<25947, 22979>>, <<36620, 52370>>, <<65519, 62589>>, <<34180, 24017>>,
    <<28584, 32335>>, <<65068, 59104>>, <<41729, 17172>>, <<19976, 4513>>,
    <<63315, 32386>>, <<48442, 62005>>, <<10967, 53947>>, <<60294, 54161>>>>

MD5InitState == <<<<26437, 8961>>, <<61389, 43913>>, <<39098, 56574>>, <<4146, 21622>>>>

Zeros(n) == [i \in 1..n |-> 0]

\* the one block of a message of at most 55 bytes: the message, 0x80, zeros up
\* to byte 56, and the bit length on 8 bytes, little-endian
MD5Pad(msg) ==
  LET n == Len(msg)
      bits == 8 * n
  IN msg \o <<128>> \o Zeros(55 - n) \o <<bits % 256, bits \div 256>> \o Zeros(6)

\* the j-th (0..15) little-endian word of the block
MD5Word(p, j) ==
  <<p[4 * j + 3] + 256 * p[4 * j + 4], p[4 * j + 1] + 256 * p[4 * j + 2]>>

\* the function of round i \div 16 on B, C, D
MD5F(B, C, D, i) ==
  IF i < 16 THEN WOr(WAnd(B, C), WAnd(WNot(B), D))
  ELSE IF i < 32 THEN WOr(WAnd(D, B), WAnd(WNot(D), C))
  ELSE IF i < 48 THEN WXor(B, WXor(C, D))
  ELSE WXor(C, WOr(B, WNot(D)))

\* the index of the message word operation i reads
MD5G(i) ==
  IF i < 16 THEN i
  ELSE IF i < 32 THEN (5 * i + 1) % 16
  ELSE IF i < 48 THEN (3 * i + 5) % 16
  ELSE (7 * i) % 16

\* one of the 64 operations: st = <<A, B, C, D>>.  (Each intermediate word is
\* bound as the element of a one-element set, so that it is computed once.)
MD5Op(st, i, p) ==
  CHOOSE out \in
    {<<st[4], WAdd(st[2], rot), st[2], st[3]>> :
       rot \in {WRotl(t, MD5Shift[i + 1]) :
         t \in {WAdd(WAdd(f, st[1]), WAdd(MD5Sine[i + 1], MD5Word(p, MD5G(i)))) :
           f \in {MD5F(st[2], st[3], st[4], i)}}}} : TRUE

RECURSIVE MD5Rounds(_, _, _)
\* operations i .. 63
MD5Rounds(st, i, p) ==
  IF i = 64 THEN st
  ELSE CHOOSE out \in {MD5Rounds(next, i + 1, p) : next \in {MD5Op(st, i, p)}} : TRUE

\* the 64 operations on one block, and the addition that ends the block
MD5Block(st, p) ==
  CHOOSE out \in
    {<<WAdd(st[1], r[1]), WAdd(st[2], r[2]), WAdd(st[3], r[3]), WAdd(st[4], r[4])>> :
       r \in {MD5Rounds(st, 0, p)}} : TRUE

WBytes(x) == <<x[2] % 256, x[2] \div 256, x[1] % 256, x[1] \div 256>>

\* crypto.createHash('md5').update(msg).digest(): 16 bytes (msg of at most 55 bytes)
MD5(msg) ==
  CHOOSE digest \in
    {WBytes(st[1]) \o WBytes(st[2]) \o WBytes(st[3]) \o WBytes(st[4]) :
       st \in {MD5Block(MD5InitState, p) : p \in {MD5Pad(msg)}}} : TRUE

(***************************************************************************)
(* Inputs of the filename generator                                        *)
(***************************************************************************)
\* longest original name drawn
MaxNameLen == 2

\* the characters original names are made of: 'a', '.', '1'
NameChars == {97, DOT, 49}

StringsUpTo(n) == UNION {[1..k -> NameChars] : k \in 0..n}

\* file.originalname: any string, the empty one included
Names == StringsUpTo(MaxNameLen)

\* values of Date.now(), of different lengths in decimal
Timestamps == {7, 1700000000}

\* values of crypto.randomBytes(8)
RandomValues == {<<1, 16, 0, 0, 0, 0, 0, 0>>, <<17, 0, 0, 0, 0, 0, 0, 0>>}

\* file.originalname of the uploads sent to POST /upload: 'a.1'
UploadNames == {<<97, DOT, 49>>}

\* the digests of the messages the generator is given, computed once
MD5Table ==
  {<<n, t, MD5(n \o Decimal(t))>> : n \in Names \cup UploadNames, t \in Timestamps}

(***************************************************************************)
(* generateUniqueFilename                                                  *)
(***************************************************************************)
\* crypto.createHash('md5').update(originalName + timestamp).digest('hex').substring(0, 8)
HashPart(originalName, timestamp) ==
  LET known == {d \in MD5Table : d[1] = originalName /\ d[2] = timestamp}
      digest == IF known # {} THEN (CHOOSE d \in known : TRUE)[3]
                ELSE MD5(originalName \o Decimal(timestamp))
  IN Substring0(Hex(digest), 8)

\* (mutation of Extension) no default when the last part is empty
ExtensionNoDefault(originalName) == SplitPop(originalName)

\* originalName.split('.').pop() || 'jpg'
Extension(originalName) ==
  IF SplitPop(originalName) # <<>> THEN SplitPop(originalName) ELSE JPG

\* timestamp is the value Date.now() returns, randomBytes the value of crypto.randomBytes(8)
generateUniqueFilename(originalName, timestamp, randomBytes) ==
  HashPart(originalName, timestamp) \o <<UNDERSCORE>> \o Hex(randomBytes) \o <<UNDERSCORE>>
    \o Decimal(timestamp) \o <<DOT>> \o Extension(originalName)

(***************************************************************************)
(* The multer middleware: upload.single('photo')                           *)
(***************************************************************************)
\* limits.fileSize
fileSizeLimit == 5 * 1024 * 1024

\* 'image/'
IMAGE_SLASH == <<105, 109, 97, 103, 101, 47>>

\* String.prototype.startsWith
StartsWith(s, prefix) ==
  Len(s) >= Len(prefix) /\ SubSeq(s, 1, Len(prefix)) = prefix

\* (mutation of fileFilter) every file accepted
fileFilterAcceptAll(file) == ""

\* fileFilter: "" for cb(null, true), else the message of the Error given to cb
fileFilter(file) ==
  IF StartsWith(file.mimetype, IMAGE_SLASH) THEN "" ELSE "Only image files allowed"

\* (mutation of Multer) the file size is not limited
MulterNoLimit(parts) ==
  IF parts = <<>> THEN [multerError |-> FALSE, code |-> "", message |-> "", file |-> <<>>]
  ELSE IF parts[1].fieldname # "photo"
    THEN [multerError |-> TRUE, code |-> "LIMIT_UNEXPECTED_FILE",
          message |-> "Unexpected field", file |-> <<>>]
  ELSE IF fileFilter(parts[1]) # ""
    THEN [multerError |-> FALSE, code |-> "", message |-> fileFilter(parts[1]), file |-> <<>>]
  ELSE [multerError |-> FALSE, code |-> "", message |-> "", file |-> parts]

\* upload.single('photo') on a request whose body carries the file parts `parts`
\* (none or one): the error it passes on (message # ""), or req.file (<<>> when
\* undefined).  A file part under another field name is refused; the filter
\* sees the part's header before its bytes are read; the bytes are then
\* counted against limits.fileSize.
Multer(parts) ==
  IF parts = <<>> THEN [multerError |-> FALSE, code |-> "", message |-> "", file |-> <<>>]
  ELSE IF parts[1].fieldname # "photo"
    THEN [multerError |-> TRUE, code |-> "LIMIT_UNEXPECTED_FILE",
          message |-> "Unexpected field", file |-> <<>>]
  ELSE IF fileFilter(parts[1]) # ""
    THEN [multerError |-> FALSE, code |-> "", message |-> fileFilter(parts[1]), file |-> <<>>]
  ELSE IF parts[1].size > fileSizeLimit
    THEN [multerError |-> TRUE, code |-> "LIMIT_FILE_SIZE",
          message |-> "File too large", file |-> <<>>]
  ELSE [multerError |-> FALSE, code |-> "", message |-> "", file |-> parts]

(***************************************************************************)
(* Responses                                                               *)
(***************************************************************************)
\* no response sent yet
NoResponse == [status |-> 0, body |-> <<>>]

\* res.status(status).json({ success: false, error: error })
ErrorResponse(status, error) ==
  [status |-> status,
   body |-> <<[success |-> FALSE, error |-> error, message |-> "", data |-> <<>>]>>]

\* res.json({ success: true, message: message, data: data }): status 200
SuccessResponse(message, data) ==
  [status |-> 200,
   body |-> <<[success |-> TRUE, error |-> "", message |-> message, data |-> <<data>>]>>]

\* the answer of the framework to a request no route matches: no JSON body
NotFoundResponse == [status |-> 404, body |-> <<>>]

\* the error handling middleware, for the error multer passed on
ErrorMiddleware(error) ==
  IF error.multerError /\ error.code = "LIMIT_FILE_SIZE"
  THEN ErrorResponse(400, "File too large (max 5MB)")
  ELSE ErrorResponse(500, IF error.message # "" THEN error.message
                          ELSE "Something went wrong")

\* supabase.storage.from(BUCKET_NAME).getPublicUrl(key).data.publicUrl
getPublicUrl(key) ==
  [base |-> "SUPABASE_URL/storage/v1/object/public/BUCKET_NAME/", path |-> key]

(***************************************************************************)
(* Requests and the bucket                                                 *)
(***************************************************************************)
\* requests in one run
MaxRequests == 2

Requests == 1..MaxRequests

\* the multipart bodies of POST /upload: no file part, or one.  The bytes of a
\* part are named by the request that carries them.
Fieldnames == {"photo", "file"}
\* 'image/png', 'text/plain'
Mimetypes == {IMAGE_SLASH \o <<112, 110, 103>>,
              <<116, 101, 120, 116, 47, 112, 108, 97, 105, 110>>}
Sizes == {fileSizeLimit, fileSizeLimit + 1}

Parts(r) ==
  {<<>>} \cup
  {<<[fieldname |-> f, mimetype |-> m, size |-> z, originalname |-> n, buffer |-> r]>> :
     f \in Fieldnames, m \in Mimetypes, z \in Sizes, n \in UploadNames}

\* messages of the failures the storage service reports
StorageFailures == {"Bucket not found"}
\* the failure reported for a write to an existing key without upsert
Duplicate == "The resource already exists"

\* (mutation of upsert) the upload call asks for upsert
upsertEnabled == TRUE

\* the options of the upload call: upsert
upsert == FALSE

\* a key no upload generates
OtherKey == <<97>>

VARIABLES
  store,    \* the bucket: key -> bytes
  req,      \* the requests: position in the handler, input, storage result, response
  genArgs,  \* the arguments of the generator calls under test
  genOut    \* the filenames these calls returned

vars == <<store, req, genArgs, genOut>>

IdleRequest ==
  [pc |-> "idle", method |-> "", parts |-> <<>>, file |-> <<>>, filename |-> <<>>,
   calls |-> 0, error |-> "", res |-> NoResponse]

Init ==
  /\ store = <<>>
  /\ req = [r \in Requests |-> IdleRequest]
  /\ genArgs = <<>>
  /\ genOut = <<>>

\* POST /upload up to the await: multer, then the handler's check of req.file,
\* the generated filename and the call of storage.upload
PostUpload(r, parts, now, random) ==
  /\ req[r].pc = "idle"
  /\ LET m == Multer(parts)
         arrived == [req[r] EXCEPT !.method = "POST", !.parts = parts, !.file = m.file]
     IN IF m.message # ""
        THEN req' = [req EXCEPT ![r] = [arrived EXCEPT !.pc = "done",
                                                       !.res = ErrorMiddleware(m)]]
        ELSE IF m.file = <<>>
        THEN req' = [req EXCEPT ![r] = [arrived EXCEPT
                       !.pc = "done",
                       !.res = ErrorResponse(400, "No photo file provided")]]
        ELSE req' = [req EXCEPT ![r] = [arrived EXCEPT
                       !.pc = "upload",
                       !.filename = generateUniqueFilename(m.file[1].originalname,
                                                           now, random),
                       !.calls = @ + 1]]
  /\ UNCHANGED <<store, genArgs, genOut>>

\* the storage service handles the write of request r: it reports `failure`
\* (# ""), refuses to replace an existing key as upsert is false, or stores
\* the bytes under the key
BucketUpload(r, failure) ==
  /\ req[r].pc = "upload"
  /\ IF failure # ""
     THEN /\ req' = [req EXCEPT ![r].pc = "uploaded", ![r].error = failure]
          /\ store' = store
     ELSE IF req[r].filename \in DOMAIN store /\ ~upsert
     THEN /\ req' = [req EXCEPT ![r].pc = "uploaded", ![r].error = Duplicate]
          /\ store' = store
     ELSE /\ req' = [req EXCEPT ![r].pc = "uploaded"]
          /\ store' = [k \in DOMAIN store \cup {req[r].filename} |->
                         IF k = req[r].filename THEN req[r].file[1].buffer ELSE store[k]]
  /\ UNCHANGED <<genArgs, genOut>>

\* (mutation of UploadResume) the error of the storage call is not looked at
UploadResumeIgnoringError(r) ==
  /\ req[r].pc = "uploaded"
  /\ req' = [req EXCEPT
       ![r].pc = "done",
       ![r].res = SuccessResponse("Photo uploaded successfully",
                    [filename |-> req[r].filename, url |-> getPublicUrl(req[r].filename),
                     size |-> req[r].file[1].size, type |-> req[r].file[1].mimetype])]
  /\ UNCHANGED <<store, genArgs, genOut>>

\* POST /upload after the await: the error of the storage call, or the public
\* URL and the success response
UploadResume(r) ==
  /\ req[r].pc = "uploaded"
  /\ req' = [req EXCEPT
       ![r].pc = "done",
       ![r].res =
         IF req[r].error # ""
         THEN ErrorResponse(500, "Upload failed: " \o req[r].error)
         ELSE SuccessResponse("Photo uploaded successfully",
                [filename |-> req[r].filename, url |-> getPublicUrl(req[r].filename),
                 size |-> req[r].file[1].size, type |-> req[r].file[1].mimetype])]
  /\ UNCHANGED <<store, genArgs, genOut>>

\* the awaited storage call throws instead of returning a result: the
\* handler's catch block answers
HandlerCatch(r) ==
  /\ req[r].pc \in {"upload", "remove"}
  /\ req' = [req EXCEPT ![r].pc = "done",
                        ![r].res = ErrorResponse(500, "Internal server error")]
  /\ UNCHANGED <<store, genArgs, genOut>>

\* the route '/delete/:filename': a parameter matches one or more characters
RouteMatches(filename) == filename # <<>>

\* DELETE /delete/<filename> up to the await: the route, then the handler's
\* check of the parameter and the call of storage.remove
DeleteRequest(r, filename) ==
  /\ req[r].pc = "idle"
  /\ LET arrived == [req[r] EXCEPT !.method = "DELETE", !.filename = filename]
     IN IF ~RouteMatches(filename)
        THEN req' = [req EXCEPT ![r] = [arrived EXCEPT !.pc = "done",
                                                       !.res = NotFoundResponse]]
        ELSE IF filename = <<>>
        THEN req' = [req EXCEPT ![r] = [arrived EXCEPT
                       !.pc = "done",
                       !.res = ErrorResponse(400, "Filename is required")]]
        ELSE req' = [req EXCEPT ![r] = [arrived EXCEPT !.pc = "remove",
                                                       !.calls = @ + 1]]
  /\ UNCHANGED <<store, genArgs, genOut>>

\* the storage service handles the delete of request r: it reports `failure`
\* (# ""), or removes the key, stored or not
BucketRemove(r, failure) ==
  /\ req[r].pc = "remove"
  /\ IF failure # ""
     THEN /\ req' = [req EXCEPT ![r].pc = "removed", ![r].error = failure]
          /\ store' = store
     ELSE /\ req' = [req EXCEPT ![r].pc = "removed"]
          /\ store' = [k \in DOMAIN store \ {req[r].filename} |-> store[k]]
  /\ UNCHANGED <<genArgs, genOut>>

\* DELETE after the await: the error of the storage call, or the success response
DeleteResume(r) ==
  /\ req[r].pc = "removed"
  /\ req' = [req EXCEPT
       ![r].pc = "done",
       ![r].res =
         IF req[r].error # ""
         THEN ErrorResponse(500, "Delete failed: " \o req[r].error)
         ELSE SuccessResponse("Photo deleted successfully",
                              [filename |-> req[r].filename])]
  /\ UNCHANGED <<store, genArgs, genOut>>

\* the filenames a client asks to delete: none, a stored one, another one
DeleteNames == {<<>>, OtherKey} \cup DOMAIN store

Next ==
  \E r \in Requests :
    \/ \E parts \in Parts(r), now \in Timestamps, random \in RandomValues :
         PostUpload(r, parts, now, random)
    \/ \E failure \in {""} \cup StorageFailures : BucketUpload(r, failure)
    \/ UploadResume(r)
    \/ HandlerCatch(r)
    \/ \E filename \in DeleteNames : DeleteRequest(r, filename)
    \/ \E failure \in {""} \cup StorageFailures : BucketRemove(r, failure)
    \/ DeleteResume(r)

Spec == Init /\ [][Next]_vars

(***************************************************************************)
(* The filename generator on its own: two calls, on any arguments          *)
(***************************************************************************)
GenInputs ==
  [originalName : Names, timestamp : Timestamps, randomBytes : RandomValues]

InitGen ==
  /\ store = <<>>
  /\ req = [r \in Requests |-> IdleRequest]
  /\ genArgs \in GenInputs \X GenInputs
  /\ genOut = <<>>

\* the next call of generateUniqueFilename
Generate ==
  /\ Len(genOut) < Len(genArgs)
  /\ genOut' = Append(genOut,
                  generateUniqueFilename(genArgs[Len(genOut) + 1].originalName,
                                         genArgs[Len(genOut) + 1].timestamp,
                                         genArgs[Len(genOut) + 1].randomBytes))
  /\ UNCHANGED <<store, req, genArgs>>

NextGen == Generate

SpecGen == InitGen /\ [][NextGen]_vars

(***************************************************************************)
(* Properties                                                              *)
(***************************************************************************)
Done(r) == req[r].pc = "done"

\* the request is a POST /upload whose body carries a file part named 'photo'
HasPhoto(q) ==
  q.method = "POST" /\ q.parts # <<>> /\ q.parts[1].fieldname = "photo"

IsImage(q) == StartsWith(q.parts[1].mimetype, IMAGE_SLASH)

\* the body is { success: false, error: <a string> }
IsErrorBody(res) ==
  res.body # <<>> /\ ~res.body[1].success /\ res.body[1].error # ""

\* C1 (as claimed): a POST /upload whose 'photo' part has a MIME type that does
\* not start with 'image/' is answered with status 400 and a body
\* { success: false, error: <string> }.
C1_NonImageIs400 ==
  \A r \in Requests :
    (Done(r) /\ HasPhoto(req[r]) /\ ~IsImage(req[r]))
      => (req[r].res.status = 400 /\ IsErrorBody(req[r].res))

\* the extension of a filename: the part after its last '.'
ExtensionOf(filename) == SplitPop(filename)

\* C2 (as claimed): for every originalName without '.', the empty one included,
\* the extension of the returned filename is 'jpg'.
C2_NoDotGivesJpg ==
  \A i \in 1..Len(genOut) :
    DotPositions(genArgs[i].originalName) = {} => ExtensionOf(genOut[i]) = JPG

\* C3 (as claimed): DELETE /delete/ with an empty filename is answered with
\* status 400 and { success: false, error: 'Filename is required' }, and no
\* storage delete is issued.
C3_EmptyFilenameIs400 ==
  \A r \in Requests :
    (Done(r) /\ req[r].method = "DELETE" /\ req[r].filename = <<>>)
      => (req[r].res = ErrorResponse(400, "Filename is required") /\ req[r].calls = 0)

\* C4 (as claimed): every POST /upload that carries no 'photo' file field is
\* answered with status 400 and { success: false, error: 'No photo file provided' }.
C4_NoPhotoIs400 ==
  \A r \in Requests :
    (Done(r) /\ req[r].method = "POST" /\ ~HasPhoto(req[r]))
      => req[r].res = ErrorResponse(400, "No photo file provided")

\* C5 (as claimed): every POST /upload whose 'photo' file is larger than 5 MB is
\* answered with status 400 and { success: false, error: 'File too large (max 5MB)' }.
C5_TooLargeIs400 ==
  \A r \in Requests :
    (Done(r) /\ HasPhoto(req[r]) /\ req[r].parts[1].size > 5 * 1024 * 1024)
      => req[r].res = ErrorResponse(400, "File too large (max 5MB)")

\* C5 (amended): every POST /upload whose one file part is a 'photo' file that
\* has a MIME type starting with 'image/' and is larger than 5 MB is answered
\* with status 400 and
\* { success: false, error: 'File too large (max 5MB)' }; it never reaches the
\* handler.
C5_TooLargeImageIs400 ==
  \A r \in Requests :
    (HasPhoto(req[r]) /\ IsImage(req[r]) /\ req[r].parts[1].size > 5 * 1024 * 1024)
      => (Done(r) /\ req[r].res = ErrorResponse(400, "File too large (max 5MB)"))

C5_Witness ==
  \E r \in Requests :
    /\ Done(r) /\ HasPhoto(req[r]) /\ IsImage(req[r])
    /\ req[r].parts[1].size = 5 * 1024 * 1024 + 1
    /\ req[r].res.status = 400

\* the upload is rejected for its input: no photo field, a file over 5 MB, or
\* a MIME type that is not an image
RejectedForInput(q) ==
  /\ q.method = "POST"
  /\ \/ ~HasPhoto(q)
     \/ q.parts[1].size > 5 * 1024 * 1024
     \/ ~IsImage(q)

\* C6: an upload rejected for its input issues no call to the storage service,
\* and the step that takes the request and answers it leaves the bucket as it was.
C6_RejectedNoSideEffect ==
  /\ [](\A r \in Requests :
          RejectedForInput(req[r]) => (Done(r) /\ req[r].calls = 0))
  /\ [][\A r \in Requests :
          (req[r].pc = "idle" /\ RejectedForInput(req'[r])) => store' = store]_vars

C6_Witness ==
  \E r \in Requests :
    /\ Done(r) /\ HasPhoto(req[r]) /\ ~IsImage(req[r])
    /\ req[r].calls = 0
    /\ store # <<>>

IsHexChar(c) == c \in 48..57 \/ c \in 97..102
IsDigitChar(c) == c \in 48..57

\* f matches ^[0-9a-f]{8}_[0-9a-f]{16}_[0-9]+\.[^.]+$
MatchesPattern(f) ==
  /\ Len(f) >= 29
  /\ \A j \in 1..8 : IsHexChar(f[j])
  /\ f[9] = 95
  /\ \A j \in 10..25 : IsHexChar(f[j])
  /\ f[26] = 95
  /\ \E d \in 28..(Len(f) - 1) :
       /\ f[d] = 46
       /\ \A j \in 27..(d - 1) : IsDigitChar(f[j])
       /\ \A j \in (d + 1)..Len(f) : f[j] # 46

\* C7: every filename the generator returns matches
\* ^[0-9a-f]{8}_[0-9a-f]{16}_[0-9]+\.[^.]+$, whatever the original name, the
\* timestamp and the random bytes.
C7_FilenamePattern ==
  \A i \in 1..Len(genOut) : MatchesPattern(genOut[i])

C7_Witness ==
  /\ Len(genOut) = 2
  /\ genArgs[1].originalName = <<>>
  /\ genArgs[2].originalName = <<97, 46>>
  /\ MatchesPattern(genOut[1]) /\ MatchesPattern(genOut[2])

\* C8: two calls whose timestamps differ or whose random bytes differ return
\* different filenames, for any pair of original names.
C8_DistinctFilenames ==
  Len(genOut) = 2 =>
    ((genArgs[1].timestamp # genArgs[2].timestamp
       \/ genArgs[1].randomBytes # genArgs[2].randomBytes)
      => genOut[1] # genOut[2])

C8_Witness ==
  /\ Len(genOut) = 2
  /\ genArgs[1].originalName = genArgs[2].originalName
  /\ genArgs[1].timestamp = genArgs[2].timestamp
  /\ genArgs[1].randomBytes # genArgs[2].randomBytes
  /\ genOut[1] # genOut[2]

\* C9: when the storage service reports a failure for an upload or a delete,
\* the request is answered with status 500 and the error 'Upload failed: ' or
\* 'Delete failed: ' followed by the reported message, never with a success
\* response, and a request issues at most one call to the storage service.
C9_StorageFailureIs500 ==
  \A r \in Requests :
    /\ req[r].calls <= 1
    /\ (Done(r) /\ req[r].error # "")
         => req[r].res =
              ErrorResponse(500, (IF req[r].method = "POST" THEN "Upload failed: "
                                  ELSE "Delete failed: ") \o req[r].error)

C9_Witness ==
  \E r1, r2 \in Requests :
    /\ Done(r1) /\ req[r1].method = "POST" /\ req[r1].error \in StorageFailures
    /\ Done(r2) /\ req[r2].method = "DELETE" /\ req[r2].error \in StorageFailures
    /\ req[r1].res.status = 500 /\ req[r2].res.status = 500

\* C10: an upload never replaces a stored object: no step changes the bytes
\* under a key that stays in the bucket; a write whose key is already stored
\* fails and leaves the bucket as it was; and the client of a failed write is
\* answered with status 500 and 'Upload failed: <message>'.
C10_NoOverwrite ==
  /\ [][\A k \in DOMAIN store : k \in DOMAIN store' => store'[k] = store[k]]_vars
  /\ [][\A r \in Requests :
          (req[r].pc = "upload" /\ req'[r].pc = "uploaded"
             /\ req[r].filename \in DOMAIN store)
            => (store' = store /\ req'[r].error # "")]_vars
  /\ [](\A r \in Requests :
          (Done(r) /\ req[r].method = "POST" /\ req[r].error # "")
            => (req[r].res.status = 500
                /\ req[r].res.body[1].error = "Upload failed: " \o req[r].error))

C10_Witness ==
  \E r \in Requests :
    /\ Done(r) /\ req[r].method = "POST" /\ req[r].error = Duplicate
    /\ req[r].filename \in DOMAIN store
    /\ store[req[r].filename] # r
    /\ req[r].res.status = 500

=============================================================================
